---- MODULE Spec2Model ----
(***************************************************************************)
(* Model of src/edicionvoz.py: the Streamlit page "Audio Analysis          *)
(* Combiner".  One action is one run of main() triggered by one widget     *)
(* event; the session state (transcriptions, segments), the two uploader   *)
(* slots, the temporary files left on disk, the file combined_audio.wav    *)
(* and what the run rendered on the page are the state.                    *)
(*                                                                         *)
(* Times are held in ticks of half a millisecond, so that the truncation   *)
(* int(seconds * 1000) is visible: a time of t ticks is t / Second seconds.*)
(* A decoded clip is the sequence of its milliseconds, each a number that  *)
(* identifies the clip and the position.                                   *)
(***************************************************************************)
EXTENDS Integers, Sequences, FiniteSets, TLC

\* ------------------------------------------------------------------ bounds
MaxSegments == 2      \* the segment list is explored up to this length
MaxLeaked == 1        \* temporary files are counted up to this many ("or more")

\* --------------------------------------------------------------- constants
MsPerSecond == 1000   \* int(segment['start'] * 1000)
Second == 2 * MsPerSecond   \* ticks in one second (a tick is half a millisecond)

\* ------------------------------------------------------------------- values
NoFile == [present |-> FALSE, ok |-> FALSE, pcm |-> <<>>]
Clip(pcm) == [present |-> TRUE, ok |-> TRUE, pcm |-> pcm]
ClipA == Clip(<<11, 12, 13>>)
ClipB == Clip(<<21, 22, 23>>)
Corrupt == [present |-> TRUE, ok |-> FALSE, pcm |-> <<>>]
Uploads == {ClipA, ClipB, Corrupt}
\* the files the session puts into each uploader
Uploads1 == {ClipA, Corrupt}
Uploads2 == {ClipB, Corrupt}

NoneText == "<None>"
Texts == {"hola"}
\* recognize_google: raises, or returns a transcript (possibly empty)
RecognizerOutcomes == {"<raise>", ""} \cup Texts

NoOutput == [exists |-> FALSE, complete |-> FALSE, pcm |-> <<>>]
Wav(pcm) == [exists |-> TRUE, complete |-> TRUE, pcm |-> pcm]
PartialWav == [exists |-> TRUE, complete |-> FALSE, pcm |-> <<>>]

Sources == {"audio1", "audio2"}
Labels == {"intro"}
\* times typed into the two number inputs, in ticks
StartTyped == {-2, 2}
EndTyped == {1, 5}

\* messages the page shows
MsgNone == ""
MsgTranscribed(slot) == IF slot = "audio1" THEN "Audio 1 transcribed successfully!"
                        ELSE "Audio 2 transcribed successfully!"
MsgProcessingError == "Error processing audio"
MsgSegmentAdded == "Segment added!"
MsgCombined == "Audio combined successfully!"
MsgCombiningError == "Error combining audio"
MsgUploadBoth == "Please upload both audio files first!"

VARIABLES
    audio1_file,      \* value of the first file_uploader
    audio2_file,      \* value of the second file_uploader
    transcriptions,   \* st.session_state.transcriptions
    segments,         \* st.session_state.segments
    tmp_files,        \* temporary files on disk (delete=False) not yet unlinked
    output_file,      \* the file combined_audio.wav
    page,             \* what the last run rendered: message, audio player/download
    clicked,          \* the "Remove" button pressed in the last run, if any
    memo              \* history: the clip of the first successful combine, and
                      \* whether a later combine succeeded too

vars == <<audio1_file, audio2_file, transcriptions, segments, tmp_files,
          output_file, page, clicked, memo>>

Min(a, b) == IF a < b THEN a ELSE b

\* Python truthiness of a returned text: None and "" are falsy
Truthy(text) == text # NoneText /\ text # ""

\* the temporary-file counter, counted up to MaxLeaked
Leak(n) == Min(MaxLeaked, tmp_files + n)

Blank == [message |-> MsgNone, audio |-> NoOutput]
Show(msg) == [message |-> msg, audio |-> NoOutput]

NoMemo == [first |-> NoOutput, again |-> FALSE]

\* keys of the Remove buttons: f"remove_{i}"; NoRemove when none was pressed
NoRemove == -1

\* ------------------------------------------------- AudioCombiner (pure part)

\* load_and_transcribe: one temporary file is created; decoding a corrupt upload
\* raises, and so may the re-encode, the recording or the recognizer (outcome
\* "<raise>"); only the path that reaches os.unlink removes the temporary file.
load_and_transcribe(audio_file, outcome) ==
    IF ~audio_file.ok \/ outcome = "<raise>"
    THEN [text |-> NoneText, leaked |-> 1]
    ELSE [text |-> outcome, leaked |-> 0]

\* int(seconds * 1000) on a time held in ticks
ToMs(t) == (t * MsPerSecond) \div Second

\* source_audio[start_ms:end_ms]: both ends are clamped to the clip's length
Slice(pcm, start_ms, end_ms) ==
    SubSeq(pcm, Min(start_ms, Len(pcm)) + 1, Min(end_ms, Len(pcm)))

\* one pass of the loop body: pick the source, convert the times, slice
SegmentAudio(audio1, audio2, segment) ==
    LET source_audio == IF segment.source = "audio1" THEN audio1 ELSE audio2
    IN  Slice(source_audio, ToMs(segment.start), ToMs(segment.end))

\* faulty variant: each slice is put in front of what was combined so far
AccumulateFront(combined, audio_segment) == audio_segment \o combined

\* combined += audio_segment
Accumulate(combined, audio_segment) == combined \o audio_segment

\* the for loop over selected_segments, from position i on
RECURSIVE CombineLoop(_, _, _, _, _)
CombineLoop(audio1, audio2, selected_segments, i, combined) ==
    IF i > Len(selected_segments) THEN combined
    ELSE CombineLoop(audio1, audio2, selected_segments, i + 1,
             Accumulate(combined, SegmentAudio(audio1, audio2, selected_segments[i])))

\* combined.export(output_path, format="wav"): the file is opened for writing,
\* which empties it, and the clip is written in place of what it held
ExportOutcomes == {"written", "open_failed", "write_failed"}
\* faulty variant: the clip is written after what the file already held
ExportAppend(previous, combined) == Wav(previous.pcm \o combined)
ExportWav(previous, combined) == Wav(combined)

\* combine_segments: two temporary files are created; a corrupt upload raises in
\* from_file before the unlinks; the export opens combined_audio.wav for writing
\* (truncating it) and may fail before or while writing.  `previous` is the file
\* combined_audio.wav as it was.
combine_segments(file1, file2, selected_segments, export, previous) ==
    IF ~file1.ok \/ ~file2.ok
    THEN [ok |-> FALSE, leaked |-> 2, file |-> previous]
    ELSE LET combined == CombineLoop(file1.pcm, file2.pcm,
                                     selected_segments, 1, <<>>)
         IN  CASE export = "written" ->
                    [ok |-> TRUE, leaked |-> 0, file |-> ExportWav(previous, combined)]
               [] export = "open_failed" ->
                    [ok |-> FALSE, leaked |-> 0, file |-> previous]
               [] OTHER ->
                    [ok |-> FALSE, leaked |-> 0, file |-> PartialWav]

\* ---------------------------------------------------------------- main()

Init ==
    /\ audio1_file = NoFile
    /\ audio2_file = NoFile
    /\ transcriptions = [s \in Sources |-> NoneText]
    /\ segments = <<>>
    /\ tmp_files = 0
    /\ output_file = NoOutput
    /\ page = Blank
    /\ clicked = NoRemove
    /\ memo = NoMemo

\* faulty variant: the returned value is stored without the test
StoreTranscriptAlways(slot, text) == [transcriptions EXCEPT ![slot] = text]

\* if text: st.session_state.transcriptions[slot] = text
StoreTranscript(slot, text) ==
    IF Truthy(text) THEN [transcriptions EXCEPT ![slot] = text] ELSE transcriptions

\* faulty variant: one transcript is enough to open the section
SegmentSelectionEither ==
    Truthy(transcriptions["audio1"]) \/ Truthy(transcriptions["audio2"])

\* the guard of the "Select Segments" section
SegmentSelection ==
    Truthy(transcriptions["audio1"]) /\ Truthy(transcriptions["audio2"])

\* st.number_input("Start time (seconds)", min_value=0.0): the values the
\* input can hold, of those typed
StartInputs(typed) == {t \in typed : t >= 0}

\* faulty variant: the end input has no minimum
EndInputsNoMin(typed, start_time) == typed \cup {start_time + Second}

\* st.number_input("End time (seconds)", min_value=start_time,
\* value=start_time+1.0): the preset, or a typed value not below the minimum
EndInputs(typed, start_time) ==
    {e \in typed : e >= start_time} \cup {start_time + Second}

\* new_segment, for every value the four inputs can hold
NewSegments(startTyped, endTyped) ==
    UNION {{[source |-> source, text |-> text, start |-> start_time, end |-> end_time] :
               end_time \in EndInputs(endTyped, start_time)} :
           source \in Sources, text \in Labels, start_time \in StartInputs(startTyped)}

\* faulty variant: pop() with the index left out removes the last descriptor
PopLast(seq, i) == SubSeq(seq, 1, Len(seq) - 1)

\* st.session_state.segments.pop(i), i counted from 0
Pop(seq, i) == SubSeq(seq, 1, i) \o SubSeq(seq, i + 2, Len(seq))

\* a file is put into, replaced in or taken out of an uploader
UploadAudio1 ==
    /\ \E f \in Uploads1 \cup {NoFile} : f # audio1_file /\ audio1_file' = f
    /\ page' = Blank
    /\ clicked' = NoRemove
    /\ UNCHANGED <<audio2_file, transcriptions, segments, tmp_files, output_file>>

UploadAudio2 ==
    /\ \E f \in Uploads2 \cup {NoFile} : f # audio2_file /\ audio2_file' = f
    /\ page' = Blank
    /\ clicked' = NoRemove
    /\ UNCHANGED <<audio1_file, transcriptions, segments, tmp_files, output_file>>

Transcribe(slot, audio_file) ==
    /\ audio_file.present
    /\ \E outcome \in RecognizerOutcomes :
         LET r == load_and_transcribe(audio_file, outcome)
         IN  /\ transcriptions' = StoreTranscript(slot, r.text)
             /\ tmp_files' = Leak(r.leaked)
             /\ page' = IF Truthy(r.text) THEN Show(MsgTranscribed(slot))
                        ELSE IF r.text = NoneText THEN Show(MsgProcessingError)
                        ELSE Blank
    /\ UNCHANGED <<audio1_file, audio2_file, segments, output_file>>

TranscribeAudio1 ==
    /\ Transcribe("audio1", audio1_file)
    /\ clicked' = NoRemove

TranscribeAudio2 ==
    /\ Transcribe("audio2", audio2_file)
    /\ clicked' = NoRemove

AddSegment ==
    /\ SegmentSelection
    /\ Len(segments) < MaxSegments
    /\ \E new_segment \in NewSegments(StartTyped, EndTyped) :
         segments' = Append(segments, new_segment)
    /\ page' = Show(MsgSegmentAdded)
    /\ clicked' = NoRemove
    /\ UNCHANGED <<audio1_file, audio2_file, transcriptions, tmp_files, output_file>>

\* a "Remove i+1" button exists for each position of the list; the rerun after
\* the pop renders the page anew
RemoveSegment ==
    /\ SegmentSelection
    /\ \E i \in 0 .. Len(segments) - 1 :
         /\ segments' = Pop(segments, i)
         /\ clicked' = i
    /\ page' = Blank
    /\ UNCHANGED <<audio1_file, audio2_file, transcriptions, tmp_files, output_file>>

\* faulty variant: the combine button does not look at the segment list
CombineAlwaysOffered == TRUE

\* if st.session_state.segments and st.button("Combine Selected Segments")
CombineOffered == segments # <<>>

\* faulty variant: only the first uploader is looked at
OnlyFirstUploaded == audio1_file.present

\* if audio1_file and audio2_file
BothUploaded == audio1_file.present /\ audio2_file.present

\* faulty variant: the page renders the file without testing output_path
CombinePageUnchecked(r) == [message |-> MsgCombined, audio |-> r.file]

\* if output_path: the success message, the player and the download button
CombinePage(r) ==
    IF r.ok THEN [message |-> MsgCombined, audio |-> r.file]
    ELSE Show(MsgCombiningError)

CombineSelectedSegments ==
    /\ SegmentSelection
    /\ CombineOffered
    /\ IF BothUploaded
       THEN \E export \in ExportOutcomes :
              LET r == combine_segments(audio1_file, audio2_file, segments,
                                        export, output_file)
              IN  /\ tmp_files' = Leak(r.leaked)
                  /\ output_file' = r.file
                  /\ page' = CombinePage(r)
       ELSE /\ page' = Show(MsgUploadBoth)
            /\ UNCHANGED <<tmp_files, output_file>>
    /\ clicked' = NoRemove
    /\ UNCHANGED <<audio1_file, audio2_file, transcriptions, segments>>

\* any other widget event (the download button, an edited text area or number
\* input): the script runs again and no button of the page reads as pressed
OtherInteraction ==
    /\ page' = Blank
    /\ clicked' = NoRemove
    /\ UNCHANGED <<audio1_file, audio2_file, transcriptions, segments, tmp_files,
                   output_file>>

Next ==
    \/ UploadAudio1 /\ UNCHANGED memo
    \/ UploadAudio2 /\ UNCHANGED memo
    \/ TranscribeAudio1 /\ UNCHANGED memo
    \/ TranscribeAudio2 /\ UNCHANGED memo
    \/ AddSegment /\ UNCHANGED memo
    \/ RemoveSegment /\ UNCHANGED memo
    \/ CombineSelectedSegments /\ UNCHANGED memo
    \/ OtherInteraction /\ UNCHANGED memo

Spec == Init /\ [][Next]_vars

\* --------------------------------------------- the combiner on its own inputs

\* Sessions that have both clips transcribed and a segment list built from the
\* times CombinerTyped; combined_audio.wav may be absent or left by an earlier
\* combine of other clips or segments.
CombinerTyped == {0, 3}
MaxCombined == 3      \* the longest segment list handed to the combiner

RECURSIVE SegmentLists(_, _)
SegmentLists(descriptors, n) ==
    IF n = 0 THEN {<<>>}
    ELSE LET shorter == SegmentLists(descriptors, n - 1)
         IN  shorter \cup {Append(l, d) : l \in {x \in shorter : Len(x) = n - 1},
                                           d \in descriptors}

EarlierOutputs == {NoOutput, Wav(<<99>>)}

InitCombiner ==
    /\ audio1_file \in Uploads
    /\ audio2_file \in Uploads
    /\ transcriptions \in [Sources -> Texts]
    /\ segments \in SegmentLists(NewSegments(CombinerTyped, CombinerTyped), MaxCombined)
    /\ tmp_files = 0
    /\ output_file \in EarlierOutputs
    /\ page = Blank
    /\ clicked = NoRemove
    /\ memo = NoMemo

\* memo keeps the clip of the first successful combine
Remember ==
    memo' = IF page'.message # MsgCombined THEN memo
            ELSE IF memo.first.exists THEN [memo EXCEPT !.again = TRUE]
            ELSE [first |-> output_file', again |-> FALSE]

NextCombiner ==
    \/ CombineSelectedSegments /\ Remember
    \/ OtherInteraction /\ UNCHANGED memo

SpecCombiner == InitCombiner /\ [][NextCombiner]_vars
\* ------------------------------------------------------------------ claims

CombineMessages == {MsgCombined, MsgCombiningError, MsgUploadBoth}
FailureMessages == {MsgProcessingError, MsgCombiningError, MsgUploadBoth}

SourceFile(source) == IF source = "audio1" THEN audio1_file ELSE audio2_file

\* the slice a descriptor names: slice(clip of its source, trunc(start*1000) ms,
\* trunc(end*1000) ms), the slicing primitive keeping its own clamping
ClaimedSlice(k) ==
    Slice(SourceFile(segments[k].source).pcm,
          ToMs(segments[k].start), ToMs(segments[k].end))

\* where the k-th slice starts in the concatenation
RECURSIVE Offset(_)
Offset(k) == IF k <= 1 THEN 0 ELSE Offset(k - 1) + Len(ClaimedSlice(k - 1))

\* ToMs truncates: it is the largest whole number of milliseconds not above t
IsTruncation(t) ==
    /\ ToMs(t) * Second <= t * MsPerSecond
    /\ (ToMs(t) + 1) * Second > t * MsPerSecond

\* pcm is the slices of the current descriptors, each once, in list order
IsConcatenation(pcm) ==
    /\ Len(pcm) = Offset(Len(segments) + 1)
    /\ \A k \in 1 .. Len(segments) :
         /\ IsTruncation(segments[k].start)
         /\ IsTruncation(segments[k].end)
         /\ \A j \in 1 .. Len(ClaimedSlice(k)) :
              pcm[Offset(k) + j] = ClaimedSlice(k)[j]

\* C1: after a successful combine the output clip is exactly the concatenation,
\* in list order, of the slice each descriptor names (times truncated to whole
\* milliseconds); nothing is reordered, dropped, duplicated or added.
C1_CombineIsConcatenation ==
    page.message = MsgCombined =>
        /\ output_file.exists /\ output_file.complete
        /\ IsConcatenation(output_file.pcm)

\* a first/second/first list with three non-empty slices has been combined
C1_Witness ==
    /\ page.message = MsgCombined
    /\ audio1_file = ClipA /\ audio2_file = ClipB
    /\ Len(segments) = 3
    /\ segments[1].source = "audio1" /\ segments[2].source = "audio2"
    /\ segments[3].source = "audio1"
    /\ output_file.pcm = <<11, 22, 23, 12, 13>>

\* C2 as stated: a combine is rejected for a missing clip exactly when a slot
\* that some descriptor names is empty.
C2_Original ==
    LET missing == \E k \in 1 .. Len(segments) : ~SourceFile(segments[k].source).present
    IN  /\ page.message = MsgUploadBoth => missing
        /\ page.message \in {MsgCombined, MsgCombiningError} => ~missing

\* C2 amended: a combine run while either uploader is empty, named by a
\* descriptor or not, ends with the missing-clip message, creates no temporary
\* file and leaves combined_audio.wav alone; a combine run while both uploaders
\* hold a file is never rejected for a missing clip.
C2_BothClipsRequired ==
    [][page'.message \in CombineMessages =>
          IF audio1_file.present /\ audio2_file.present
          THEN page'.message # MsgUploadBoth
          ELSE /\ page'.message = MsgUploadBoth
               /\ tmp_files' = tmp_files
               /\ output_file' = output_file]_vars

\* rejected for a missing clip although every descriptor names a populated slot
C2_Witness ==
    /\ page.message = MsgUploadBoth
    /\ segments # <<>>
    /\ \A k \in 1 .. Len(segments) : SourceFile(segments[k].source).present

C5_Original ==
    (/\ segments = <<>>
     /\ transcriptions["audio1"] \in Texts /\ transcriptions["audio2"] \in Texts
     /\ audio1_file.ok /\ audio2_file.ok)
    => ENABLED (/\ CombineSelectedSegments
                /\ page'.message = MsgCombined
                /\ output_file'.pcm = <<>>)

\* C5 amended: while the segment list is empty no combine is performed: no run
\* writes combined_audio.wav, shows a clip or reports a combine result.
C5_NoCombineOfEmptyList ==
    [][segments = <<>> =>
          /\ output_file' = output_file
          /\ ~page'.audio.exists
          /\ page'.message \notin CombineMessages]_vars

\* the list has been emptied again with both clips uploaded and transcribed
C5_Witness ==
    /\ segments = <<>>
    /\ clicked # NoRemove
    /\ audio1_file.ok /\ audio2_file.ok
    /\ transcriptions["audio1"] \in Texts /\ transcriptions["audio2"] \in Texts

\* C6: a run that ends in a failure (transcription or combine) leaves both
\* transcripts and the segment list as they were.
C6_FailureKeepsState ==
    [][page'.message \in FailureMessages =>
          /\ transcriptions' = transcriptions
          /\ segments' = segments]_vars

\* a transcription failed with both transcripts set and segments listed
C6_Witness ==
    /\ page.message = MsgProcessingError
    /\ transcriptions["audio1"] \in Texts /\ transcriptions["audio2"] \in Texts
    /\ segments # <<>>

\* C7 as stated: after a failed combine no clip is exposed and none, partial or
\* stale, is at the output location.
C7_Original ==
    page.message = MsgCombiningError =>
        /\ ~page.audio.exists
        /\ ~output_file.exists

\* C7 amended: the page exposes a clip only after a successful combine, and then
\* the complete clip built from the current descriptors and uploads, which is
\* also what combined_audio.wav holds; a failed combine exposes nothing.
C7_NoPartialOutputExposed ==
    /\ page.audio.exists =>
         /\ page.message = MsgCombined
         /\ page.audio.complete
         /\ page.audio = output_file
         /\ IsConcatenation(page.audio.pcm)
    /\ page.message \in FailureMessages => ~page.audio.exists

\* a combine failed while combined_audio.wav holds an earlier or partial clip
C7_Witness ==
    /\ page.message = MsgCombiningError
    /\ output_file.exists

\* C8 as stated: no temporary file is left once a transcribe or combine call
\* has returned.
C8_NoTemporaryFileLeft == tmp_files = 0

GatedWhileUntranscribed ==
    /\ \A s \in Sources : transcriptions[s] # ""
    /\ (\E s \in Sources : transcriptions[s] = NoneText) =>
         /\ segments = <<>>
         /\ ~output_file.exists
         /\ ~page.audio.exists
         /\ page.message \notin (CombineMessages \cup {MsgSegmentAdded})
         /\ clicked = NoRemove

TranscriptSetByTranscription ==
    \A s \in Sources :
        transcriptions'[s] # transcriptions[s] =>
            /\ page'.message = MsgTranscribed(s)
            /\ transcriptions'[s] \in Texts
            /\ SourceFile(s).present

\* C10: while a slot has no transcript the segment list is empty, no output
\* exists or is shown and no add, remove or combine has taken effect; a
\* transcript changes only in a transcription run of its own slot that returned
\* a non-empty text, and is never the empty text.
C10_GatedOnBothTranscripts ==
    /\ []GatedWhileUntranscribed
    /\ [][TranscriptSetByTranscription]_vars

\* one slot transcribed, the other uploaded and its transcription failed
C10_Witness ==
    /\ transcriptions["audio1"] \in Texts
    /\ transcriptions["audio2"] = NoneText
    /\ audio1_file.ok /\ audio2_file.ok
    /\ page.message = MsgProcessingError
====
